---- MODULE Spec2Model ----
(***************************************************************************)
(* A model of slgero/taxid2prot: the batch splitter (multiproc_utils.py),  *)
(* the direct-query downloader (taxid2prot/taxid2prot.py, class Parser)    *)
(* and the browser-driven downloader (taxid2prot.py, class ParseProtein).  *)
(*                                                                         *)
(* Text is modelled as a sequence of one-character strings, so that the    *)
(* regular-expression search, lower-casing, replacement and formatting of  *)
(* file names are computed character by character.                        *)
(***************************************************************************)
EXTENDS Integers, Sequences, FiniteSets, TLC

VARIABLES
    \* get_batches: one call and its outcome
    data, processes_count, batches,
    \* Parser (direct-query variant): one object, its file system and transport
    files, transport, download_folder, session, parse_arg, tax_ids, idx, ppc,
    printed, last_call, calls, downloaded,
    \* the base path: the proteins(i) it holds, and the initializer calls
    dirs, base_isdir, callers,
    \* the __main__ block of taxid2prot/taxid2prot.py and its process pool
    main_pc, cpu_count, tax_indices, parser, tasks, written,
    \* ParseProtein (browser-driven variant): one parse call, the browser's
    \* download list and the download folder
    ui_arg, batch_size, ui_pc, ui_tax_ids, ui_i, driver, downloads, num,
    since_wait, ui_files, to_rename, ui_printed

batch_vars == <<data, processes_count, batches>>
parser_vars == <<files, transport, download_folder, session, parse_arg, tax_ids,
                 idx, ppc, printed, last_call, calls, downloaded>>
dir_vars == <<dirs, base_isdir, callers>>
pool_vars == <<main_pc, cpu_count, tax_indices, parser, tasks, written>>
ui_vars == <<ui_arg, batch_size, ui_pc, ui_tax_ids, ui_i, driver, downloads,
             num, since_wait, ui_files, to_rename, ui_printed>>
vars == <<batch_vars, parser_vars, dir_vars, pool_vars, ui_vars>>

(***************************************************************************)
(* Bounds of the model.                                                    *)
(***************************************************************************)
MaxItems == 5
MaxProcs == 4
MaxIds == 3
MaxCalls == 3
NumCallers == 2
MaxCpu == 2
MaxUiIds == 4
MaxBatch == 2
MaxPolls == 3

Min(a, b) == IF a < b THEN a ELSE b

Range(f) == {f[k] : k \in DOMAIN f}

SeqsUpTo(S, n) == UNION {[1..k -> S] : k \in 0..n}

(***************************************************************************)
(* Text.                                                                   *)
(***************************************************************************)
Upper == <<"A", "B", "C", "D", "E", "F", "G", "H", "I", "J", "K", "L", "M",
           "N", "O", "P", "Q", "R", "S", "T", "U", "V", "W", "X", "Y", "Z">>
Lower == <<"a", "b", "c", "d", "e", "f", "g", "h", "i", "j", "k", "l", "m",
           "n", "o", "p", "q", "r", "s", "t", "u", "v", "w", "x", "y", "z">>
Digits == <<"0", "1", "2", "3", "4", "5", "6", "7", "8", "9">>

\* [A-Za-z]
IsAlpha(c) == \E k \in 1..26 : Upper[k] = c \/ Lower[k] = c
\* \s
IsSpace(c) == c \in {" ", "\t", "\n", "\r"}
\* str.lower(), one character
LowerChar(c) ==
    IF \E k \in 1..26 : Upper[k] = c
    THEN Lower[CHOOSE k \in 1..26 : Upper[k] = c]
    ELSE c
\* str.lower()
PyLower(s) == [k \in 1..Len(s) |-> LowerChar(s[k])]
\* str.replace(" ", "_")
ReplaceSpace(s) == [k \in 1..Len(s) |-> IF s[k] = " " THEN "_" ELSE s[k]]

\* str(n) for n >= 0
RECURSIVE str(_)
str(n) == IF n < 10 THEN <<Digits[n + 1]>>
          ELSE str(n \div 10) \o <<Digits[(n % 10) + 1]>>

(***************************************************************************)
(* multiproc_utils.get_batches                                             *)
(***************************************************************************)
\* round(n / k) of Python 3: to the nearest integer, a tie to the even one
PyRound(n, k) ==
    LET q == n \div k
        r == n % k
    IN  IF 2 * r < k THEN q
        ELSE IF 2 * r > k THEN q + 1
        ELSE IF q % 2 = 0 THEN q ELSE q + 1

bath_size(d, k) == PyRound(Len(d), k)

\* d[lo : hi] for 0 <= lo <= hi
PySliceShort(d, lo, hi) == SubSeq(d, lo + 1, Min(hi - 1, Len(d)))
PySlice(d, lo, hi) == SubSeq(d, lo + 1, Min(hi, Len(d)))

\* range(0, n, step) for step > 0, as the sequence of its values
PyRange(n, step) ==
    [k \in 1..((n + step - 1) \div step) |-> (k - 1) * step]

\* The outcome of get_batches(d, k): the list returned, or the exception
\* range() raises for a step of zero.
get_batches(d, k) ==
    LET size == bath_size(d, k)
    IN  IF size = 0
        THEN [raised |-> "ValueError", value |-> <<>>]
        ELSE LET starts == PyRange(Len(d), size)
             IN  [raised |-> "none",
                  value |-> [j \in 1..Len(starts) |->
                                PySlice(d, starts[j], starts[j] + size)]]

TaxIds == {435, 436}
NotCalled == [raised |-> "not called", value |-> <<>>]

BatchInit ==
    /\ data \in SeqsUpTo(TaxIds, MaxItems)
    /\ processes_count \in 1..MaxProcs
    /\ batches = NotCalled

BatchIdle ==
    /\ data = <<>>
    /\ processes_count = 1
    /\ batches = NotCalled

CallGetBatches ==
    /\ batches = NotCalled
    /\ batches' = get_batches(data, processes_count)
    /\ UNCHANGED <<data, processes_count, parser_vars, dir_vars, pool_vars,
                   ui_vars>>

(***************************************************************************)
(* Parser: the direct-query variant                                        *)
(***************************************************************************)
OsPrefix == <<"O", "S", "=">>
NoName == <<"n", "o", "_", "n", "a", "m", "e">>
FastaExt == <<".", "f", "a", "s", "t", "a">>

\* The last index of the run of letters that starts at index a (a - 1 when
\* text[a] is no letter): what the greedy [A-Za-z]+ consumes.
LetterRunEnd(text, a) ==
    CHOOSE j \in (a - 1)..Len(text) :
        /\ \A k \in a..j : IsAlpha(text[k])
        /\ j = Len(text) \/ ~IsAlpha(text[j + 1])

\* Whether OS=([A-Za-z]+\s[A-Za-z]+) matches at index s
OsMatchesAt(text, s) ==
    /\ s + 2 <= Len(text)
    /\ \A k \in 1..3 : text[s + k - 1] = OsPrefix[k]
    /\ LET e1 == LetterRunEnd(text, s + 3)
       IN  /\ e1 >= s + 3
           /\ e1 + 2 <= Len(text)
           /\ IsSpace(text[e1 + 1])
           /\ IsAlpha(text[e1 + 2])

\* group(1) of the match at index s
OsGroup(text, s) ==
    LET e1 == LetterRunEnd(text, s + 3)
        e2 == LetterRunEnd(text, e1 + 2)
    IN  SubSeq(text, s + 3, e2)

find_organism_name_nolower(text) ==
    LET hits == {s \in 1..Len(text) : OsMatchesAt(text, s)}
    IN  IF hits = {} THEN NoName
        ELSE LET first == CHOOSE s \in hits : \A u \in hits : s <= u
             IN  ReplaceSpace(OsGroup(text, first))

find_organism_name(text) ==
    LET hits == {s \in 1..Len(text) : OsMatchesAt(text, s)}
    IN  IF hits = {} THEN NoName
        ELSE LET first == CHOOSE s \in hits : \A u \in hits : s <= u
             IN  ReplaceSpace(PyLower(OsGroup(text, first)))

\* f"{organism_name}_{tax_id}.fasta"
FastaName(organism_name, tax_id) ==
    organism_name \o <<"_">> \o str(tax_id) \o FastaExt

\* os.path.join(self.download_folder, name); the folder is proteins(folder)
JoinPath(folder, name) == [dir |-> folder, name |-> name]

\* os.path.exists
PathExists(fs, path) == path \in DOMAIN fs

\* The file system and the console output after save_file_as_fasta
save_file_as_fasta_overwrite(fs, folder, organism_name, tax_id, text_to_write) ==
    LET file_name == JoinPath(folder, FastaName(organism_name, tax_id))
    IN  [fs |-> [p \in DOMAIN fs \cup {file_name} |->
                    IF p = file_name THEN text_to_write ELSE fs[p]],
         out |-> <<>>]

save_file_as_fasta(fs, folder, organism_name, tax_id, text_to_write) ==
    LET file_name == JoinPath(folder, FastaName(organism_name, tax_id))
    IN  IF ~PathExists(fs, file_name)
        THEN [fs |-> [p \in DOMAIN fs \cup {file_name} |->
                         IF p = file_name THEN text_to_write ELSE fs[p]],
              out |-> <<>>]
        ELSE [fs |-> fs, out |-> <<"ERROR: File is already exists.">>]

\* What session.get returns or raises for one id
Raises(response) == response.kind = "exception"

\* The outcome of download_proteins(tax_id) on file system fs
download_proteins(fs, folder, sess, response, tax_id) ==
    IF sess = "None"
    THEN [fs |-> fs, out |-> <<>>, raised |-> "AttributeError"]
    ELSE IF Raises(response)
    THEN [fs |-> fs, out |-> <<>>, raised |-> "RequestException"]
    ELSE IF response.status_code # 200
    THEN [fs |-> fs, out |-> <<"ERROR: Problems with API.">>, raised |-> "none"]
    ELSE IF response.text = <<>>
    THEN [fs |-> fs, out |-> <<"WARNING: No proteins from taxonomy.">>,
          raised |-> "none"]
    ELSE LET organism_name == find_organism_name(response.text)
             saved == save_file_as_fasta(fs, folder, organism_name, tax_id,
                                         response.text)
         IN  [fs |-> saved.fs, out |-> saved.out, raised |-> "none"]

\* Response bodies
EColiText == <<">", "s", "p", " ", "O", "S", "=", "E", "s", "c", "h", "e", "r",
               "i", "c", "h", "i", "a", " ", "c", "o", "l", "i", " ", "O", "X",
               "=", "5", "\n", "M", "K">>
HomoTabText == <<">", "t", "r", " ", "O", "S", "=", "H", "o", "m", "o", "\t",
                 "s", "a", "p", "i", "e", "n", "s", "\n", "M", "K">>
UnnamedText == <<">", "s", "p", " ", "u", "n", "k", "n", "o", "w", "n", "\n",
                 "M", "K">>
Bodies == {<<>>, EColiText, HomoTabText, UnnamedText}
StatusCodes == {200, 206, 404}
Responses ==
    [kind : {"response"}, status_code : StatusCodes, text : Bodies]
        \cup {[kind |-> "exception", status_code |-> 0, text |-> <<>>]}
Transports == [TaxIds -> Responses]

ParseArgs ==
    [isint : {TRUE}, val : TaxIds]
        \cup [isint : {FALSE}, val : SeqsUpTo(TaxIds, MaxIds)]

NoCall == [op |-> "none", organism_name |-> <<>>, tax_id |-> 0, text |-> <<>>]
Folders == {0, 1}
EmptyFs == [p \in {} |-> <<>>]

ParserIdle ==
    /\ files = EmptyFs
    /\ transport = [t \in TaxIds |-> [kind |-> "exception", status_code |-> 0,
                                      text |-> <<>>]]
    /\ download_folder = 0
    /\ session = "None"
    /\ parse_arg = [isint |-> FALSE, val |-> <<>>]
    /\ tax_ids = <<>>
    /\ idx = 0
    /\ ppc = "idle"
    /\ printed = <<>>
    /\ last_call = NoCall
    /\ calls = 0
    /\ downloaded = {}

\* One Parser on a freshly created download directory, parse(parse_arg) called
ParseInit ==
    /\ files = EmptyFs
    /\ transport \in Transports
    /\ download_folder \in Folders
    /\ session = "None"
    /\ parse_arg \in ParseArgs
    /\ tax_ids = <<>>
    /\ idx = 0
    /\ ppc = "call"
    /\ printed = <<>>
    /\ last_call = NoCall
    /\ calls = 0
    /\ downloaded = {}

\* parse, lines 116-121: the int is wrapped in a list, the session is opened
ParseBegin ==
    /\ ppc = "call"
    /\ tax_ids' = IF parse_arg.isint THEN <<parse_arg.val>> ELSE parse_arg.val
    /\ session' = "Session"
    /\ idx' = 1
    /\ ppc' = "loop"
    /\ UNCHANGED <<files, transport, download_folder, parse_arg, printed,
                   last_call, calls, downloaded, batch_vars, dir_vars, pool_vars,
                   ui_vars>>

\* parse, lines 122-123: one iteration of the loop
ParseDownload ==
    /\ ppc = "loop"
    /\ idx <= Len(tax_ids)
    /\ LET tax_id == tax_ids[idx]
           r == download_proteins(files, download_folder, session,
                                  transport[tax_id], tax_id)
       IN  /\ files' = r.fs
           /\ printed' = printed \o r.out
           /\ IF r.raised = "none"
              THEN idx' = idx + 1 /\ ppc' = "loop"
              ELSE idx' = idx /\ ppc' = "raised"
    /\ UNCHANGED <<transport, download_folder, session, parse_arg, tax_ids,
                   last_call, calls, downloaded, batch_vars, dir_vars, pool_vars,
                   ui_vars>>

\* parse, line 124: the loop is over
ParseEnd ==
    /\ ppc = "loop"
    /\ idx > Len(tax_ids)
    /\ printed' = Append(printed, "The downloaded files are located here.")
    /\ ppc' = "done"
    /\ UNCHANGED <<files, transport, download_folder, session, parse_arg,
                   tax_ids, idx, last_call, calls, downloaded, batch_vars, dir_vars, pool_vars,
                   ui_vars>>

(***************************************************************************)
(* The Parser's methods called one by one on one object, as a caller or a  *)
(* test does: init_session, save_file_as_fasta, download_proteins.         *)
(***************************************************************************)
OrganismNames == {NoName, <<"h", "o", "m", "o", "_", "s", "a", "p", "i", "e", "n", "s">>}

\* The texts a caller saves, and the responses the transport gives it
SavedTexts == {<<>>, EColiText, UnnamedText}
ObjectResponses ==
    {r \in Responses : r.status_code # 206 /\ r.text \in SavedTexts}

ObjectInit ==
    /\ files = EmptyFs
    /\ transport \in [TaxIds -> ObjectResponses]
    /\ download_folder = 0
    /\ session = "None"
    /\ parse_arg = [isint |-> FALSE, val |-> <<>>]
    /\ tax_ids = <<>>
    /\ idx = 0
    /\ ppc = "object"
    /\ printed = <<>>
    /\ last_call = NoCall
    /\ calls = 0
    /\ downloaded = {}

CallInitSession ==
    /\ ppc = "object"
    /\ calls < MaxCalls
    /\ session' = "Session"
    /\ calls' = calls + 1
    /\ last_call' = [NoCall EXCEPT !.op = "init_session"]
    /\ UNCHANGED <<files, transport, download_folder, parse_arg, tax_ids, idx,
                   ppc, printed, downloaded, batch_vars, dir_vars, pool_vars,
                   ui_vars>>

CallSaveFileAsFasta ==
    /\ ppc = "object"
    /\ calls < MaxCalls
    /\ \E organism_name \in OrganismNames, tax_id \in TaxIds, text \in SavedTexts :
          LET r == save_file_as_fasta(files, download_folder, organism_name,
                                      tax_id, text)
          IN  /\ files' = r.fs
              /\ printed' = printed \o r.out
              /\ last_call' = [op |-> "save_file_as_fasta",
                               organism_name |-> organism_name,
                               tax_id |-> tax_id, text |-> text]
    /\ calls' = calls + 1
    /\ UNCHANGED <<transport, download_folder, session, parse_arg, tax_ids,
                   idx, ppc, downloaded, batch_vars, dir_vars, pool_vars,
                   ui_vars>>

CallDownloadProteins ==
    /\ ppc = "object"
    /\ calls < MaxCalls
    /\ \E tax_id \in TaxIds :
          LET r == download_proteins(files, download_folder, session,
                                     transport[tax_id], tax_id)
          IN  /\ files' = r.fs
              /\ printed' = printed \o r.out
              /\ last_call' = [NoCall EXCEPT !.op = "download_proteins",
                                             !.tax_id = tax_id]
              /\ downloaded' = IF r.raised = "none"
                               THEN downloaded \cup {tax_id} ELSE downloaded
    /\ calls' = calls + 1
    /\ UNCHANGED <<transport, download_folder, session, parse_arg, tax_ids,
                   idx, ppc, batch_vars, dir_vars, pool_vars,
                   ui_vars>>

(***************************************************************************)
(* Parser.__init__ / ParseProtein.__init__ and __create_download_folder:   *)
(* initializer calls on one base path, each in its own process, so that    *)
(* the steps of different calls interleave.  The directory proteins(i) is  *)
(* modelled by its number i.                                               *)
(***************************************************************************)
attempts == 40

Names == 0..(attempts - 1)

\* os.makedirs(new_path, exist_ok=True), which the code does not ask for
makedirs_exist_ok(ds, i) == [dirs |-> ds \cup {i}, raised |-> "none"]

\* os.makedirs(new_path): the directory is created, or the call raises
makedirs(ds, i) ==
    IF i \in ds
    THEN [dirs |-> ds, raised |-> "FileExistsError"]
    ELSE [dirs |-> ds \cup {i}, raised |-> "none"]

\* __create_download_folder in one process with nothing else running
create_download_folder(ds) ==
    IF Names \subseteq ds
    THEN [dirs |-> ds, raised |-> "ValueError", new_path |-> attempts]
    ELSE LET i == CHOOSE j \in Names \ ds : \A k \in Names \ ds : j <= k
         IN  [dirs |-> makedirs(ds, i).dirs, raised |-> "none", new_path |-> i]

Callers == 1..NumCallers
Classes == {"Parser", "ParseProtein"}
NewCaller(cls) ==
    [cls |-> cls, pc |-> "start", i |-> 0, download_folder |-> attempts,
     before |-> {}, seen |-> {}, message |-> ""]

\* What the base path holds at the start: proteins(0) .. proteins(k - 1), and
\* possibly one more directory after a gap
PrefixLens == {0, 1, attempts - 1, attempts}
BaseContents ==
    UNION {{(0..(k - 1)) \cup g : g \in {{}, {k + 1} \cap Names}} :
              k \in PrefixLens}

DirInit ==
    /\ dirs \in BaseContents
    /\ base_isdir \in BOOLEAN
    /\ callers \in [Callers -> {NewCaller(cls) : cls \in Classes}]

DirIdle ==
    /\ dirs = {}
    /\ base_isdir = TRUE
    /\ callers = [c \in Callers |-> NewCaller("Parser")]

\* __init__: os.path.isdir(path_to_save)
InitCheckPath(c) ==
    /\ callers[c].pc = "start"
    /\ callers' = [callers EXCEPT ![c] =
          IF base_isdir
          THEN [callers[c] EXCEPT !.pc = "probe", !.i = 0, !.before = dirs]
          ELSE [callers[c] EXCEPT !.pc = "ValueError", !.before = dirs,
                                  !.message = "bad path"]]
    /\ UNCHANGED <<dirs, base_isdir, batch_vars, parser_vars, pool_vars,
                   ui_vars>>

\* __create_download_folder: one os.path.exists(new_path) of the loop, and
\* the raise that follows the last one
InitProbe(c) ==
    /\ callers[c].pc = "probe"
    /\ LET cur == callers[c]
       IN  callers' = [callers EXCEPT ![c] =
              IF cur.i \notin dirs
              THEN [cur EXCEPT !.pc = "makedirs"]
              ELSE IF cur.i + 1 < attempts
              THEN [cur EXCEPT !.i = cur.i + 1]
              ELSE [cur EXCEPT !.pc = "ValueError",
                               !.message = IF cur.cls = "Parser"
                                           THEN "ERROR: Unable to create folder."
                                           ELSE "Unable to create folder."]]
    /\ UNCHANGED <<dirs, base_isdir, batch_vars, parser_vars, pool_vars,
                   ui_vars>>

\* __create_download_folder: os.makedirs(new_path) and the return
InitMakedirs(c) ==
    /\ callers[c].pc = "makedirs"
    /\ LET cur == callers[c]
           r == makedirs(dirs, cur.i)
       IN  /\ dirs' = r.dirs
           /\ callers' = [callers EXCEPT ![c] =
                 IF r.raised = "none"
                 THEN [cur EXCEPT !.pc = "done", !.download_folder = cur.i,
                                  !.seen = dirs]
                 ELSE [cur EXCEPT !.pc = r.raised, !.seen = dirs]]
    /\ UNCHANGED <<base_isdir, batch_vars, parser_vars, pool_vars,
                   ui_vars>>

DirNext == \E c \in Callers : InitCheckPath(c) \/ InitProbe(c) \/ InitMakedirs(c)

(***************************************************************************)
(* The __main__ block of taxid2prot/taxid2prot.py: the ids are split by    *)
(* get_batches, one Parser is built, and Pool(cpu_count).map runs          *)
(* parser.parse on every chunk, each task on its own pickled copy of the   *)
(* parser.                                                                 *)
(***************************************************************************)
MainTaxIndices == <<435, 436, 437, 438, 439, 440, 441, 442, 443>>
ExtraProcesses == 5

OkResponse(text) == [kind |-> "response", status_code |-> 200, text |-> text]
\* The transport of the pool run: by id, a named body, no body, an unnamed
\* body, or a refusal
PoolTransport ==
    [t \in Range(MainTaxIndices) |->
        IF t % 4 = 0 THEN OkResponse(<<>>)
        ELSE IF t % 4 = 1 THEN OkResponse(UnnamedText)
        ELSE IF t % 4 = 2 THEN [OkResponse(EColiText) EXCEPT !.status_code = 404]
        ELSE OkResponse(EColiText)]

NoParser == [download_folder |-> attempts, session |-> "None"]

PoolIdle ==
    /\ main_pc = "idle"
    /\ cpu_count = 0
    /\ tax_indices = <<>>
    /\ parser = NoParser
    /\ tasks = <<>>
    /\ written = {}

PoolInit ==
    /\ main_pc = "start"
    /\ cpu_count \in 1..MaxCpu
    /\ tax_indices = MainTaxIndices
    /\ parser = NoParser
    /\ tasks = <<>>
    /\ written = {}
    /\ files = EmptyFs
    /\ transport = PoolTransport
    /\ dirs = {}
    /\ base_isdir = TRUE

\* lines 133-135: cpu_count = get_cpu_count() + 5, then get_batches
MainGetBatches ==
    /\ main_pc = "start"
    /\ LET count == cpu_count + ExtraProcesses
           r == get_batches(tax_indices, count)
       IN  /\ cpu_count' = count
           /\ IF r.raised = "none"
              THEN tax_indices' = r.value /\ main_pc' = "parser"
              ELSE tax_indices' = tax_indices /\ main_pc' = r.raised
    /\ UNCHANGED <<parser, tasks, written, batch_vars, parser_vars, dir_vars,
                   ui_vars>>

\* lines 137-138: parser = Parser(folder_to_download)
MainCreateParser ==
    /\ main_pc = "parser"
    /\ LET r == create_download_folder(dirs)
       IN  /\ dirs' = r.dirs
           /\ IF base_isdir /\ r.raised = "none"
              THEN /\ parser' = [download_folder |-> r.new_path,
                                 session |-> "None"]
                   /\ main_pc' = "pool"
              ELSE /\ parser' = parser
                   /\ main_pc' = "ValueError"
    /\ UNCHANGED <<cpu_count, tax_indices, tasks, written, base_isdir, callers,
                   batch_vars, parser_vars, ui_vars>>

\* lines 140-141: pool.map pickles parser.parse with every chunk
MainPoolMap ==
    /\ main_pc = "pool"
    /\ tasks' = [t \in 1..Len(tax_indices) |->
                    [self |-> parser, tax_ids |-> tax_indices[t], idx |-> 0,
                     pc |-> "queued"]]
    /\ main_pc' = "map"
    /\ UNCHANGED <<cpu_count, tax_indices, parser, written, batch_vars,
                   parser_vars, dir_vars, ui_vars>>

Running == {t \in DOMAIN tasks : tasks[t].pc = "loop"}

\* A free process of the pool takes a task: parse opens the task's session
TaskBegin(t) ==
    /\ main_pc = "map"
    /\ tasks[t].pc = "queued"
    /\ Cardinality(Running) < cpu_count
    /\ tasks' = [tasks EXCEPT ![t].self.session = <<"Session", t>>,
                              ![t].idx = 1, ![t].pc = "loop"]
    /\ UNCHANGED <<main_pc, cpu_count, tax_indices, parser, written,
                   batch_vars, parser_vars, dir_vars,
                   ui_vars>>

\* One iteration of the task's loop, download_proteins(tax_id); after the
\* last one parse prints where the files are and returns
TaskDownload(t) ==
    /\ main_pc = "map"
    /\ tasks[t].pc = "loop"
    /\ tasks[t].idx <= Len(tasks[t].tax_ids)
    /\ LET cur == tasks[t]
           tax_id == cur.tax_ids[cur.idx]
           r == download_proteins(files, cur.self.download_folder,
                                  cur.self.session[1], transport[tax_id],
                                  tax_id)
       IN  /\ files' = r.fs
           /\ written' = written \cup
                 {[task |-> t, path |-> q] : q \in DOMAIN r.fs \ DOMAIN files}
           /\ tasks' = [tasks EXCEPT ![t] =
                 [cur EXCEPT !.idx = cur.idx + 1,
                             !.pc = IF r.raised # "none" THEN r.raised
                                    ELSE IF cur.idx = Len(cur.tax_ids)
                                    THEN "done" ELSE "loop"]]
    /\ UNCHANGED <<main_pc, cpu_count, tax_indices, parser, batch_vars,
                   transport, download_folder, session, parse_arg, tax_ids,
                   idx, ppc, printed, last_call, calls, downloaded, dir_vars,
                   ui_vars>>

PoolNext ==
    \/ MainGetBatches
    \/ MainCreateParser
    \/ MainPoolMap
    \/ \E t \in DOMAIN tasks : TaskBegin(t) \/ TaskDownload(t)

(***************************************************************************)
(* ParseProtein: the browser-driven variant.  The browser keeps a list of  *)
(* downloads; a download that completes puts a file sequence.fasta,        *)
(* sequence (1).fasta, ... into the download folder.                       *)
(***************************************************************************)
SequenceWord == <<"s", "e", "q", "u", "e", "n", "c", "e">>
HomoLine == <<">", "P", " ", "[", "H", "o", "m", "o", " ", "s", "a", "p", "i",
              "e", "n", "s", "]", "\n">>
UnknownLine == <<">", "Q", " ", "u", "n", "k", "n", "o", "w", "n", "\n">>
\* What the site sends for an id
UiText(tax_id) ==
    IF tax_id % 2 = 1 THEN HomoLine \o <<"M", "K">> ELSE UnknownLine \o <<"M", "K">>

\* The name the browser gives the n-th file called sequence.fasta
SequenceName(n) ==
    IF n = 0 THEN SequenceWord \o FastaExt
    ELSE SequenceWord \o <<" ", "(">> \o str(n) \o <<")">> \o FastaExt

StartsWith(x, prefix) ==
    Len(x) >= Len(prefix) /\ SubSeq(x, 1, Len(prefix)) = prefix
EndsWith(x, suffix) ==
    Len(x) >= Len(suffix)
        /\ SubSeq(x, Len(x) - Len(suffix) + 1, Len(x)) = suffix

\* fasta_file.readline()
ReadLine(text) ==
    LET ends == {k \in 1..Len(text) : text[k] = "\n"}
    IN  IF ends = {} THEN text
        ELSE SubSeq(text, 1, CHOOSE k \in ends : \A u \in ends : k <= u)

\* [A-Za-z0-9_\s]
IsNameChar(c) ==
    IsAlpha(c) \/ (\E k \in 1..10 : Digits[k] = c) \/ c = "_" \/ IsSpace(c)

NameRunEnd(line, a) ==
    CHOOSE j \in (a - 1)..Len(line) :
        /\ \A k \in a..j : IsNameChar(line[k])
        /\ j = Len(line) \/ ~IsNameChar(line[j + 1])

\* Whether \[([A-Za-z0-9_\s]+)\] matches at index s
BracketMatchesAt(line, s) ==
    /\ line[s] = "["
    /\ LET e == NameRunEnd(line, s + 1)
       IN  e >= s + 1 /\ e + 1 <= Len(line) /\ line[e + 1] = "]"

\* re.findall(pattern_to_find_name, first_line): the groups, leftmost first;
\* only the first is used
FindAllFirst(line) ==
    LET hits == {s \in 1..Len(line) : BracketMatchesAt(line, s)}
    IN  IF hits = {} THEN <<>>
        ELSE LET first == CHOOSE s \in hits : \A u \in hits : s <= u
             IN  <<SubSeq(line, first + 1, NameRunEnd(line, first + 1))>>

\* The script of are_files_downloaded: the list of file urls when every item
\* of the download list is COMPLETE, and nothing (None) otherwise
ScriptResult(items) ==
    IF \A k \in 1..Len(items) : items[k].state = "COMPLETE"
    THEN [none |-> FALSE, value |-> [k \in 1..Len(items) |-> items[k].tax_id]]
    ELSE [none |-> TRUE, value |-> <<>>]

\* bool(x) of None or a list
PyBool(x) == ~x.none /\ x.value # <<>>


\* are_files_downloaded(): TRUE while the wait has to go on
are_files_downloaded(items) == ~PyBool(ScriptResult(items))

UiArgs ==
    [isint : {TRUE}, val : TaxIds]
        \cup [isint : {FALSE}, val : SeqsUpTo(TaxIds, MaxUiIds)]

UiIdle ==
    /\ ui_arg = [isint |-> FALSE, val |-> <<>>]
    /\ batch_size = 1
    /\ ui_pc = "idle"
    /\ ui_tax_ids = <<>>
    /\ ui_i = 0
    /\ driver = "None"
    /\ downloads = <<>>
    /\ num = 0
    /\ since_wait = 0
    /\ ui_files = EmptyFs
    /\ to_rename = {}
    /\ ui_printed = {}

\* One ParseProtein on a freshly created folder, parse(ui_arg, batch_size)
\* called
UiInit ==
    /\ ui_arg \in UiArgs
    /\ batch_size \in 1..MaxBatch
    /\ ui_pc = "call"
    /\ ui_tax_ids = <<>>
    /\ ui_i = 0
    /\ driver = "None"
    /\ downloads = <<>>
    /\ num = 0
    /\ since_wait = 0
    /\ ui_files = EmptyFs
    /\ to_rename = {}
    /\ ui_printed = {}

UiOthers == <<batch_vars, parser_vars, dir_vars, pool_vars>>

\* parse, lines 176-183: the int is wrapped in a list, the driver is started
UiBegin ==
    /\ ui_pc = "call"
    /\ ui_tax_ids' = IF ui_arg.isint THEN <<ui_arg.val>> ELSE ui_arg.val
    /\ driver' = "open"
    /\ ui_i' = 0
    /\ ui_pc' = "fetching"
    /\ ui_printed' = ui_printed \cup {"To avoid problems"}
    /\ UNCHANGED <<ui_arg, batch_size, downloads, num, since_wait, ui_files,
                   to_rename, UiOthers>>

\* parse, lines 184-188: download_proteins(tax_id) starts a download in the
\* browser; then the test that sends the run into a wait
UiDownload ==
    /\ ui_pc = "fetching"
    /\ ui_i < Len(ui_tax_ids)
    /\ downloads' = Append(downloads, [state |-> "IN_PROGRESS",
                                       tax_id |-> ui_tax_ids[ui_i + 1]])
    /\ IF ui_i % batch_size = 0 /\ ui_i # 0
       THEN /\ ui_pc' = "waiting"
            /\ num' = 0
            /\ since_wait' = since_wait + 1
            /\ ui_i' = ui_i
            /\ ui_printed' = ui_printed \cup {"Wait for all files to download."}
       ELSE /\ ui_pc' = "fetching"
            /\ num' = num
            /\ since_wait' = since_wait + 1
            /\ ui_i' = ui_i + 1
            /\ ui_printed' = ui_printed
    /\ UNCHANGED <<ui_arg, batch_size, ui_tax_ids, driver, ui_files, to_rename,
                   UiOthers>>

\* parse, line 190: the loop is over, the final wait is called
UiLoopExit ==
    /\ ui_pc = "fetching"
    /\ ui_i = Len(ui_tax_ids)
    /\ ui_pc' = "final_wait"
    /\ num' = 0
    /\ ui_printed' = ui_printed \cup {"Wait for all files to download."}
    /\ UNCHANGED <<ui_arg, batch_size, ui_tax_ids, ui_i, driver, downloads,
                   since_wait, ui_files, to_rename, UiOthers>>

InWait == ui_pc \in {"waiting", "final_wait"}

\* wait_until_files_download: one turn of the loop
UiPoll ==
    /\ InWait
    /\ num < MaxPolls
    /\ num' = num + 1
    /\ IF are_files_downloaded(downloads)
       THEN /\ ui_printed' = IF (num + 1) % 60 = 0
                             THEN ui_printed \cup {"Still wait for the download"}
                             ELSE ui_printed
            /\ UNCHANGED <<ui_pc, ui_i, driver, since_wait>>
       ELSE /\ ui_printed' = ui_printed \cup {"The batch of files has been downloaded"}
            /\ since_wait' = 0
            /\ IF ui_pc = "waiting"
               THEN ui_pc' = "fetching" /\ ui_i' = ui_i + 1 /\ driver' = driver
               ELSE ui_pc' = "list_files" /\ ui_i' = ui_i /\ driver' = "closed"
    /\ UNCHANGED <<ui_arg, batch_size, ui_tax_ids, downloads, ui_files,
                   to_rename, UiOthers>>

\* The browser: a download completes and its file appears in the folder
BrowserCompletes ==
    /\ driver = "open"
    /\ \E k \in 1..Len(downloads) :
          /\ downloads[k].state = "IN_PROGRESS"
          /\ downloads' = [downloads EXCEPT ![k].state = "COMPLETE"]
          /\ LET n == CHOOSE m \in 0..Len(downloads) :
                         /\ SequenceName(m) \notin DOMAIN ui_files
                         /\ \A u \in 0..(m - 1) : SequenceName(u) \in DOMAIN ui_files
                 name == SequenceName(n)
             IN  ui_files' = [f \in DOMAIN ui_files \cup {name} |->
                                 IF f = name THEN UiText(downloads[k].tax_id)
                                 ELSE ui_files[f]]
    /\ UNCHANGED <<ui_arg, batch_size, ui_pc, ui_tax_ids, ui_i, driver, num,
                   since_wait, to_rename, ui_printed, UiOthers>>

\* rename_files, lines 142-143: the files to rename
UiListFiles ==
    /\ ui_pc = "list_files"
    /\ to_rename' = {f \in DOMAIN ui_files :
                        EndsWith(f, FastaExt) /\ StartsWith(f, SequenceWord)}
    /\ ui_pc' = "renaming"
    /\ UNCHANGED <<ui_arg, batch_size, ui_tax_ids, ui_i, driver, downloads,
                   num, since_wait, ui_files, ui_printed, UiOthers>>

\* rename_files, lines 146-161: one file of the loop, in the order of
\* os.listdir, which is any order
UiRenameOne ==
    /\ ui_pc = "renaming"
    /\ \E file \in to_rename :
          LET new_name == FindAllFirst(ReadLine(ui_files[file]))
          IN  /\ to_rename' = to_rename \ {file}
              /\ IF new_name # <<>>
                 THEN LET target == new_name[1] \o FastaExt
                      IN  /\ ui_files' =
                                [f \in (DOMAIN ui_files \ {file}) \cup {target} |->
                                    IF f = target THEN ui_files[file]
                                    ELSE ui_files[f]]
                          /\ ui_printed' = ui_printed
                 ELSE /\ ui_files' = ui_files
                      /\ ui_printed' = ui_printed \cup {"cannot rename"}
    /\ UNCHANGED <<ui_arg, batch_size, ui_pc, ui_tax_ids, ui_i, driver,
                   downloads, num, since_wait, UiOthers>>

\* parse, line 192
UiEnd ==
    /\ ui_pc = "renaming"
    /\ to_rename = {}
    /\ ui_pc' = "done"
    /\ ui_printed' = ui_printed \cup {"The downloaded files are located here."}
    /\ UNCHANGED <<ui_arg, batch_size, ui_tax_ids, ui_i, driver, downloads,
                   num, since_wait, ui_files, to_rename, UiOthers>>

UiNext ==
    \/ UiBegin
    \/ UiDownload
    \/ UiLoopExit
    \/ UiPoll
    \/ BrowserCompletes
    \/ UiListFiles
    \/ UiRenameOne
    \/ UiEnd

(***************************************************************************)
(* Properties                                                              *)
(***************************************************************************)
RECURSIVE Flatten(_)
Flatten(chunks) ==
    IF chunks = <<>> THEN <<>> ELSE Head(chunks) \o Flatten(Tail(chunks))

\* The number of items in the chunks before chunk j
RECURSIVE ItemsBefore(_, _)
ItemsBefore(chunks, j) ==
    IF j = 1 THEN 0 ELSE ItemsBefore(chunks, j - 1) + Len(chunks[j - 1])

Returned == batches.raised = "none"

\* C4: whenever get_batches returns, its chunks are contiguous slices of data,
\* their concatenation in order is data, and all chunks but the last have the
\* same length.
C4_ChunksReproduceData ==
    Returned =>
        LET chunks == batches.value
        IN  /\ Flatten(chunks) = data
            /\ \A j \in 1..Len(chunks) :
                  chunks[j] = SubSeq(data, ItemsBefore(chunks, j) + 1,
                                     ItemsBefore(chunks, j) + Len(chunks[j]))
            /\ \A j \in 1..(Len(chunks) - 1) : Len(chunks[j]) = Len(chunks[1])

\* A call that returned several chunks, the last one shorter than the others
C4_Witness ==
    /\ Returned
    /\ Len(batches.value) >= 3
    /\ Len(batches.value[Len(batches.value)]) < Len(batches.value[1])

CeilDiv(n, k) == (n + k - 1) \div k

\* C5: for N >= 1 items and K >= 1, get_batches returns at most K chunks, each
\* of length ceil(N/K) except possibly the last.
C5_AtMostKChunksOfCeil ==
    (Returned /\ Len(data) >= 1) =>
        /\ Len(batches.value) <= processes_count
        /\ \A j \in 1..(Len(batches.value) - 1) :
              Len(batches.value[j]) = CeilDiv(Len(data), processes_count)

\* C6: for N >= 1 items and K >= 1 the call returns a list of chunks and never
\* raises.
C6_NeverRaises ==
    (batches # NotCalled /\ Len(data) >= 1 /\ processes_count >= 1) => Returned

\* The names of the files in a folder
Listing(fs, folder) == {p.name : p \in {q \in DOMAIN fs : q.dir = folder}}

\* A response that is a success (status 200, the code's test) with a body
IsSaved(response) ==
    /\ ~Raises(response)
    /\ response.status_code = 200
    /\ response.text # <<>>

EscherichiaColi435 ==
    <<"e", "s", "c", "h", "e", "r", "i", "c", "h", "i", "a", "_", "c", "o",
      "l", "i", "_", "4", "3", "5", ".", "f", "a", "s", "t", "a">>

EndToEndScenario ==
    /\ parse_arg = [isint |-> FALSE, val |-> <<435, 436>>]
    /\ transport[435] = [kind |-> "response", status_code |-> 200,
                         text |-> EColiText]
    /\ transport[436] = [kind |-> "response", status_code |-> 200,
                         text |-> <<>>]

FetchFails(response) == ~IsSaved(response)

\* A file name of the form <anything>_<tax_id>.fasta
IsFileOf(name, tax_id) ==
    LET suffix == <<"_">> \o str(tax_id) \o FastaExt
    IN  /\ Len(name) >= Len(suffix)
        /\ SubSeq(name, Len(name) - Len(suffix) + 1, Len(name)) = suffix

\* C2: a failed fetch of an id writes no file for that id, does not stop parse
\* (every later id is still fetched), and parse finishes normally.
C2_FailuresNonFatal ==
    \A p \in 1..Len(tax_ids) :
        (p <= idx /\ FetchFails(transport[tax_ids[p]])) =>
            /\ \A q \in DOMAIN files : ~IsFileOf(q.name, tax_ids[p])
            /\ ppc # "raised"

\* C3: save_file_as_fasta on a path that exists changes no file and reports a
\* conflict; download_proteins run again for an id already downloaded (the
\* transport giving the same response) leaves the file system as it was.
C3_NeverOverwrites ==
    [][ /\ ( /\ last_call'.op = "save_file_as_fasta"
             /\ calls' = calls + 1
             /\ PathExists(files, JoinPath(download_folder,
                    FastaName(last_call'.organism_name, last_call'.tax_id))) )
            => ( /\ files' = files
                 /\ printed' = Append(printed, "ERROR: File is already exists.") )
        /\ ( /\ last_call'.op = "download_proteins"
             /\ calls' = calls + 1
             /\ last_call'.tax_id \in downloaded )
            => files' = files ]_vars

\* save_file_as_fasta was called with a text other than the one the existing
\* file holds, and the file holds what it held
C3_Witness ==
    /\ last_call.op = "save_file_as_fasta"
    /\ printed # <<>>
    /\ printed[Len(printed)] = "ERROR: File is already exists."
    /\ LET path == JoinPath(download_folder,
                       FastaName(last_call.organism_name, last_call.tax_id))
       IN  path \in DOMAIN files /\ files[path] # last_call.text

Done(c) == callers[c].pc = "done"

\* C7: two initializer calls on one base path that both succeed, one after
\* the other or interleaved, return different directories; the directory a
\* call returns did not exist before the call and is proteins(i) for the
\* smallest i in 0..39 unused when it was made (proteins(0) and proteins(1)
\* from an empty base); a call made when all 40 names are taken fails with
\* ValueError and creates nothing.
C7_DirectoriesNeverCollide ==
    /\ \A c1, c2 \in Callers :
          (c1 # c2 /\ Done(c1) /\ Done(c2)) =>
              callers[c1].download_folder # callers[c2].download_folder
    /\ \A c \in Callers :
          Done(c) =>
              /\ callers[c].download_folder \in Names \ callers[c].before
              /\ callers[c].download_folder \notin callers[c].seen
              /\ \A j \in 0..(callers[c].download_folder - 1) :
                    j \in callers[c].seen
              /\ callers[c].download_folder \in dirs
    /\ (\A c \in Callers : Done(c) /\ callers[c].before = {}) =>
          {callers[c].download_folder : c \in Callers} = 0..(NumCallers - 1)
    /\ \A c \in Callers :
          (Names \subseteq callers[c].before /\ callers[c].pc # "start") =>
              /\ callers[c].pc \in {"probe", "ValueError"}
              /\ callers[c].download_folder = attempts
              /\ callers[c].seen = {}

\* Calls that started on the same empty base before any had made its
\* directory, and all succeeded
C7_Witness ==
    /\ \A c \in Callers : Done(c)
    /\ \A c \in Callers : callers[c].before = {}
    /\ {callers[c].download_folder : c \in Callers} = 0..(NumCallers - 1)
    /\ \E c \in Callers : callers[c].seen = {}

\* A call that found all 40 names taken and failed
C7_WitnessExhausted ==
    \E c \in Callers :
        /\ callers[c].pc = "ValueError"
        /\ callers[c].message # "bad path"
        /\ Names \subseteq dirs

Started(t) == tasks[t].pc # "queued"

\* C8: in the process-pool run every worker has its own session and its own
\* download directory: no two workers use, or write files in, the same
\* directory.
C8_WorkersOwnDirectories ==
    /\ \A t1, t2 \in DOMAIN tasks :
          (t1 # t2 /\ Started(t1) /\ Started(t2)) =>
              /\ tasks[t1].self.session # tasks[t2].self.session
              /\ tasks[t1].self.download_folder # tasks[t2].self.download_folder
    /\ \A w1, w2 \in written :
          w1.task # w2.task => w1.path.dir # w2.path.dir

\* C9: counting from the start of the run or from the previous wait, at most
\* batch_size calls of download_proteins are issued before
\* wait_until_files_download is called.
C9_WaitEveryBatchSize == since_wait <= batch_size

AllComplete == \A k \in 1..Len(downloads) : downloads[k].state = "COMPLETE"

\* C10: the wait returns at the first poll at which every item of the
\* download list is COMPLETE, also when the list is empty.
C10_WaitReturnsWhenAllComplete ==
    [][(InWait /\ num' = num + 1 /\ AllComplete) => ~InWait']_vars

(***************************************************************************)
(* Specifications: one per part of the program, the other parts idle.      *)
(***************************************************************************)
InitBatches == BatchInit /\ ParserIdle /\ DirIdle /\ PoolIdle /\ UiIdle
NextBatches == CallGetBatches
SpecBatches == InitBatches /\ [][NextBatches]_vars

InitParse == ParseInit /\ BatchIdle /\ DirIdle /\ PoolIdle /\ UiIdle
NextParse == ParseBegin \/ ParseDownload \/ ParseEnd
SpecParse == InitParse /\ [][NextParse]_vars

InitObject == ObjectInit /\ BatchIdle /\ DirIdle /\ PoolIdle /\ UiIdle
NextObject == CallInitSession \/ CallSaveFileAsFasta \/ CallDownloadProteins
SpecObject == InitObject /\ [][NextObject]_vars

InitDirs == DirInit /\ BatchIdle /\ ParserIdle /\ PoolIdle /\ UiIdle
SpecDirs == InitDirs /\ [][DirNext]_vars

InitPool ==
    /\ PoolInit /\ BatchIdle /\ UiIdle
    /\ callers = [c \in Callers |-> NewCaller("Parser")]
    /\ download_folder = 0 /\ session = "None"
    /\ parse_arg = [isint |-> FALSE, val |-> <<>>]
    /\ tax_ids = <<>> /\ idx = 0 /\ ppc = "idle" /\ printed = <<>>
    /\ last_call = NoCall /\ calls = 0 /\ downloaded = {}
SpecPool == InitPool /\ [][PoolNext]_vars

InitUi == UiInit /\ BatchIdle /\ ParserIdle /\ DirIdle /\ PoolIdle
SpecUi == InitUi /\ [][UiNext]_vars
====
